---- MODULE Spec2Model ----
(***************************************************************************)
(* Othello rules engine and game session (src/src/game.py), the search    *)
(* and its transposition table (src/src/ai.py), and the handlers of the   *)
(* UI that call them (src/src/ui.py).                                     *)
(*                                                                         *)
(* A board is a function board[y][x], y the row and x the column, as the   *)
(* numpy array board[y,x] of the source.  A coordinate is the pair <<x,y>>.*)
(* Python's None is the empty tuple <<>>; a string of the move log is the  *)
(* sequence of its characters.  A method of Game is an operator from the   *)
(* record of the object's fields to [self |-> the fields after, ret |->    *)
(* the value returned].                                                    *)
(*                                                                         *)
(* Spec is a session: the methods of Game called in any order.             *)
(* SpecSearch is the tree of calls of search below one call of choose_move.*)
(* SpecRestore is the start of the UI on a stored record, sound or damaged.*)
(* SpecChoose is calls of choose_move on one position, sharing TT.         *)
(* SpecUI is the UI after its start: hint, AI round and reset.             *)
(* SpecDeep is SpecChoose near the end of a game, with deeper searches.    *)
(* SpecPlay is a session continued from positions of the recorded games.   *)
(* SpecTasks is the event loop of the UI: handlers and the tasks started.  *)
(* SpecAuto is the AI_VS_AI loop left to run, with no event of the user.   *)
(***************************************************************************)
EXTENDS Integers, Sequences, FiniteSets, TLC

\* ------------------------------------------------------------------ bounds
\* Forward actions stop once the undo stack holds this many snapshots.
MaxHistory == 2
\* Largest number of steps one undo or redo call is asked for.
MaxSteps == 2
\* The depth the search is started with.
MaxDepth == 1
\* The largest depth choose_move is asked for.
MaxSearchDepth == 3
\* The deepest search asked of choose_move near the end of a game.
MaxDeepDepth == 4
\* The largest depth of the depth selector of the UI.
MaxUiDepth == 1
\* Calls of choose_move in one run.
MaxCalls == 2
\* Clock reads within the shorter of the time limits that are not 0.
MaxReads == 8
\* Tasks pending at one time: no task is started beyond it.
MaxTasks == 3
\* Events of the user in one run.
MaxEvents == 2
\* Calls of choose_move by the AI_VS_AI loop in one run.
MaxTurns == 12

\* --------------------------------------------------------------- constants
EMPTY == 0
BLACK == 1
WHITE == -1
N == 8

Idx == 0 .. (N - 1)
Cells == {<<x, y>> : x \in Idx, y \in Idx}
Players == {BLACK, WHITE}

DIRS == << <<-1, -1>>, <<0, -1>>, <<1, -1>>,
           <<-1, 0>>,             <<1, 0>>,
           <<-1, 1>>,  <<0, 1>>,  <<1, 1>> >>

onboard(x, y) == 0 <= x /\ x < N /\ 0 <= y /\ y < N

\* ------------------------------------------------------------- notation
Letters == <<"A", "B", "C", "D", "E", "F", "G", "H">>
Digits == <<"1", "2", "3", "4", "5", "6", "7", "8">>
PassNote == <<"p", "a", "s", "s">>

\* Mutant: the letter taken from the row and the digit from the column.
coord_to_notation_swapped(x, y) == <<Letters[y + 1], Digits[x + 1]>>

coord_to_notation(x, y) == <<Letters[x + 1], Digits[y + 1]>>

\* ---------------------------------------------------------------- board
\* Mutant: the four starting stones with their colours exchanged.
_init_board_swapped ==
  [y \in Idx |-> [x \in Idx |->
     IF (y = 3 /\ x = 3) \/ (y = 4 /\ x = 4) THEN BLACK
     ELSE IF (y = 3 /\ x = 4) \/ (y = 4 /\ x = 3) THEN WHITE
     ELSE EMPTY]]

_init_board ==
  [y \in Idx |-> [x \in Idx |->
     IF (y = 3 /\ x = 3) \/ (y = 4 /\ x = 4) THEN WHITE
     ELSE IF (y = 3 /\ x = 4) \/ (y = 4 /\ x = 3) THEN BLACK
     ELSE EMPTY]]

\* The cells in the order of the loops "for y ... for x ...".
ScanOrder == [i \in 1 .. (N * N) |-> <<(i - 1) % N, (i - 1) \div N>>]

\* The while loop of legal_moves: walk from (nx,ny) over opponent stones.
RECURSIVE walk(_, _, _, _, _, _, _)
walk(board, nx, ny, dx, dy, opp, seen) ==
  IF onboard(nx, ny) /\ board[ny][nx] = opp
  THEN walk(board, nx + dx, ny + dy, dx, dy, opp, TRUE)
  ELSE <<nx, ny, seen>>

\* Mutant: the test without "seen", so a neighbouring own stone is enough.
dir_captures_noseen(board, x, y, d, player) ==
  LET e == walk(board, x + d[1], y + d[2], d[1], d[2], -player, FALSE)
  IN onboard(e[1], e[2]) /\ board[e[2]][e[1]] = player

\* One direction of legal_moves: the test that appends (x,y).
dir_captures(board, x, y, d, player) ==
  LET e == walk(board, x + d[1], y + d[2], d[1], d[2], -player, FALSE)
  IN e[3] /\ onboard(e[1], e[2]) /\ board[e[2]][e[1]] = player

legal_moves(board, player) ==
  SelectSeq(ScanOrder,
            LAMBDA c : /\ board[c[2]][c[1]] = EMPTY
                       /\ \E i \in 1 .. Len(DIRS) :
                            dir_captures(board, c[1], c[2], DIRS[i], player))

\* The while loop of apply_move: collect the opponent run from (nx,ny).
RECURSIVE collect(_, _, _, _, _, _, _)
collect(out, nx, ny, dx, dy, opp, flips) ==
  IF onboard(nx, ny) /\ out[ny][nx] = opp
  THEN collect(out, nx + dx, ny + dy, dx, dy, opp, Append(flips, <<nx, ny>>))
  ELSE <<nx, ny, flips>>

\* Mutant: a captured stone is taken off the board instead of turned over.
RECURSIVE flip_all_clear(_, _, _)
flip_all_clear(out, flips, player) ==
  IF flips = <<>> THEN out
  ELSE flip_all_clear([out EXCEPT ![Head(flips)[2]][Head(flips)[1]] = EMPTY],
                      Tail(flips), player)

RECURSIVE flip_all(_, _, _)
flip_all(out, flips, player) ==
  IF flips = <<>> THEN out
  ELSE flip_all([out EXCEPT ![Head(flips)[2]][Head(flips)[1]] = player],
                Tail(flips), player)

\* Mutant: the run is found but never turned over.
apply_dir_noflip(out, x, y, d, player) == out

\* One iteration of "for dx,dy in DIRS" of apply_move.
apply_dir(out, x, y, d, player) ==
  LET r == collect(out, x + d[1], y + d[2], d[1], d[2], -player, <<>>)
  IN IF r[3] # <<>> /\ onboard(r[1], r[2]) /\ out[r[2]][r[1]] = player
     THEN flip_all(out, r[3], player)
     ELSE out

RECURSIVE apply_dirs(_, _, _, _, _)
apply_dirs(out, i, x, y, player) ==
  IF i > Len(DIRS) THEN out
  ELSE apply_dirs(apply_dir(out, x, y, DIRS[i], player), i + 1, x, y, player)

apply_move(board, x, y, player) ==
  apply_dirs([board EXCEPT ![y][x] = player], 1, x, y, player)

count(board, v) == Cardinality({c \in Cells : board[c[2]][c[1]] = v})

\* Python's "e in seq".
Contains(seq, e) == \E i \in 1 .. Len(seq) : seq[i] = e

\* -------------------------------------------------------------- session
\* A session is the record of the fields of a Game object.
Game(m) ==
  [mode |-> m, board |-> _init_board, current_player |-> BLACK,
   pass_streak |-> 0, history |-> <<>>, future |-> <<>>,
   move_history |-> <<>>, last_move |-> <<>>]

reset(self) ==
  [self EXCEPT !.board = _init_board, !.current_player = BLACK,
               !.pass_streak = 0, !.history = <<>>, !.future = <<>>,
               !.move_history = <<>>, !.last_move = <<>>]

\* Mutant: the snapshot does not keep the pass streak.
snapshot_without_streak(self) ==
  [board |-> self.board, current_player |-> self.current_player,
   mode |-> self.mode, pass_streak |-> 0,
   move_history |-> self.move_history, last_move |-> self.last_move]

snapshot(self) ==
  [board |-> self.board, current_player |-> self.current_player,
   mode |-> self.mode, pass_streak |-> self.pass_streak,
   move_history |-> self.move_history, last_move |-> self.last_move]

\* Mutant: last_move is not taken from the snapshot.
restore_without_last_move(self, snap) ==
  [self EXCEPT !.board = snap.board, !.current_player = snap.current_player,
               !.mode = snap.mode, !.pass_streak = snap.pass_streak,
               !.move_history = snap.move_history]

restore(self, snap) ==
  [self EXCEPT !.board = snap.board, !.current_player = snap.current_player,
               !.mode = snap.mode, !.pass_streak = snap.pass_streak,
               !.move_history = snap.move_history,
               !.last_move = snap.last_move]

\* Mutant: the loop reports a step even when it made none.
RECURSIVE undo_loop_always_true(_, _, _)
undo_loop_always_true(self, k, ok) ==
  IF k <= 0 \/ self.history = <<>> THEN [self |-> self, ret |-> TRUE]
  ELSE LET curr == [board |-> self.board, current_player |-> self.current_player,
                    mode |-> self.mode, pass_streak |-> self.pass_streak,
                    move_history |-> self.move_history,
                    last_move |-> self.last_move]
           prev == self.history[Len(self.history)]
           popped == [self EXCEPT
                        !.history = SubSeq(self.history, 1, Len(self.history) - 1),
                        !.future = Append(self.future, curr),
                        !.board = prev.board,
                        !.current_player = prev.current_player,
                        !.mode = prev.mode, !.pass_streak = prev.pass_streak,
                        !.move_history = prev.move_history,
                        !.last_move = prev.last_move]
       IN undo_loop_always_true(popped, k - 1, TRUE)

\* The loop "for _ in range(steps)" of undo; k iterations are left.
RECURSIVE undo_loop(_, _, _)
undo_loop(self, k, ok) ==
  IF k <= 0 \/ self.history = <<>> THEN [self |-> self, ret |-> ok]
  ELSE LET curr == snapshot(self)
           prev == self.history[Len(self.history)]
           popped == [self EXCEPT
                        !.history = SubSeq(self.history, 1, Len(self.history) - 1),
                        !.future = Append(self.future, curr)]
       IN undo_loop(restore(popped, prev), k - 1, TRUE)

undo(self, steps) == undo_loop(self, steps, FALSE)

\* Mutant: redo does not push the state it leaves onto the undo stack.
RECURSIVE redo_loop_no_push(_, _, _)
redo_loop_no_push(self, k, ok) ==
  IF k <= 0 \/ self.future = <<>> THEN [self |-> self, ret |-> ok]
  ELSE LET nxt == self.future[Len(self.future)]
           popped == [self EXCEPT
                        !.future = SubSeq(self.future, 1, Len(self.future) - 1)]
       IN redo_loop_no_push(restore(popped, nxt), k - 1, TRUE)

RECURSIVE redo_loop(_, _, _)
redo_loop(self, k, ok) ==
  IF k <= 0 \/ self.future = <<>> THEN [self |-> self, ret |-> ok]
  ELSE LET curr == snapshot(self)
           nxt == self.future[Len(self.future)]
           popped == [self EXCEPT
                        !.future = SubSeq(self.future, 1, Len(self.future) - 1),
                        !.history = Append(self.history, curr)]
       IN redo_loop(restore(popped, nxt), k - 1, TRUE)

redo(self, steps) == redo_loop(self, steps, FALSE)

get_legal_moves(self) == legal_moves(self.board, self.current_player)

\* Mutant: the snapshot is pushed before the membership test.
make_move_on_push_first(self, x, y, moves) ==
  LET pushed == [self EXCEPT !.history = Append(self.history, snapshot(self)),
                             !.future = <<>>]
  IN IF ~Contains(moves, <<x, y>>) THEN [self |-> pushed, ret |-> FALSE]
     ELSE [self |-> [pushed EXCEPT
                       !.board = apply_move(self.board, x, y, self.current_player),
                       !.last_move = <<x, y>>,
                       !.move_history = Append(self.move_history, coord_to_notation(x, y)),
                       !.current_player = self.current_player * (-1),
                       !.pass_streak = 0],
           ret |-> TRUE]

\* make_move after "moves = self.get_legal_moves()": the membership test and
\* the update.  The list is a parameter so that one evaluation of it serves
\* every (x,y) tried in a state.
make_move_on(self, x, y, moves) ==
  IF ~Contains(moves, <<x, y>>) THEN [self |-> self, ret |-> FALSE]
  ELSE [self |-> [self EXCEPT
                    !.history = Append(self.history, snapshot(self)),
                    !.future = <<>>,
                    !.board = apply_move(self.board, x, y, self.current_player),
                    !.last_move = <<x, y>>,
                    !.move_history = Append(self.move_history, coord_to_notation(x, y)),
                    !.current_player = self.current_player * (-1),
                    !.pass_streak = 0],
        ret |-> TRUE]

make_move(self, x, y) == make_move_on(self, x, y, get_legal_moves(self))

\* Mutant: the pass is taken without asking for the legal moves.
pass_turn_unchecked(self) ==
  [self |-> [self EXCEPT
               !.history = Append(self.history, snapshot(self)),
               !.future = <<>>,
               !.move_history = Append(self.move_history, PassNote),
               !.current_player = self.current_player * (-1),
               !.pass_streak = self.pass_streak + 1],
   ret |-> TRUE]

pass_turn(self) ==
  IF get_legal_moves(self) # <<>> THEN [self |-> self, ret |-> FALSE]
  ELSE [self |-> [self EXCEPT
                    !.history = Append(self.history, snapshot(self)),
                    !.future = <<>>,
                    !.move_history = Append(self.move_history, PassNote),
                    !.current_player = self.current_player * (-1),
                    !.pass_streak = self.pass_streak + 1],
        ret |-> TRUE]

\* Mutant: only the player to move is asked for legal moves.
is_game_over_mover_only(self) ==
  IF count(self.board, EMPTY) = 0 THEN TRUE
  ELSE IF Len(legal_moves(self.board, self.current_player)) = 0 THEN TRUE
  ELSE FALSE

is_game_over(self) ==
  IF count(self.board, EMPTY) = 0 THEN TRUE
  ELSE IF Len(legal_moves(self.board, BLACK)) = 0
          /\ Len(legal_moves(self.board, WHITE)) = 0 THEN TRUE
  ELSE FALSE

score(self) == [black |-> count(self.board, BLACK), white |-> count(self.board, WHITE)]

\* The leaf test of search: "depth <= 0 or (not legal and not
\* Game.legal_moves(board, -player))".
search_is_leaf(board, player, depth) ==
  LET legal == legal_moves(board, player)
  IN depth <= 0 \/ (legal = <<>> /\ legal_moves(board, -player) = <<>>)

\* --------------------------------------------------- evaluation (ai.py)
\* W[y + 1][x + 1] is the source's W[y, x].
W ==
  << <<120, -20, 20, 5, 5, 20, -20, 120>>,
     <<-20, -40, -5, -5, -5, -5, -40, -20>>,
     <<20, -5, 15, 3, 3, 15, -5, 20>>,
     <<5, -5, 3, 3, 3, 3, -5, 5>>,
     <<5, -5, 3, 3, 3, 3, -5, 5>>,
     <<20, -5, 15, 3, 3, 15, -5, 20>>,
     <<-20, -40, -5, -5, -5, -5, -40, -20>>,
     <<120, -20, 20, 5, 5, 20, -20, 120>> >>

CORNERS == {<<0, 0>>, <<7, 0>>, <<0, 7>>, <<7, 7>>}
ADJ_CORNERS ==
  {<<1, 0>>, <<0, 1>>, <<6, 0>>, <<7, 1>>, <<0, 6>>, <<1, 7>>, <<6, 7>>, <<7, 6>>}

\* For math.inf: larger than any value evaluate gives.
Inf == 1000000000

\* A stone is on the frontier when an orthogonal neighbour is EMPTY.
emptyn(board, x, y) ==
  \E d \in {<<-1, 0>>, <<1, 0>>, <<0, -1>>, <<0, 1>>} :
    onboard(x + d[1], y + d[2]) /\ board[y + d[2]][x + d[1]] = EMPTY

frontier_count(board, v) ==
  Cardinality({c \in Cells : board[c[2]][c[1]] = v /\ emptyn(board, c[1], c[2])})

\* Mutant: the player's frontier stones are left out.
stable_frontier_penalty_opp_only(board, player) ==
  frontier_count(board, -player)

stable_frontier_penalty(board, player) ==
  frontier_count(board, -player) - frontier_count(board, player)

\* (board * W).sum() over the cells lo .. hi of the scan order: the sum of
\* the two halves, down to one cell.
RECURSIVE weighted(_, _, _)
weighted(board, lo, hi) ==
  IF lo = hi
  THEN LET c == ScanOrder[lo]
       IN board[c[2]][c[1]] * W[c[2] + 1][c[1] + 1]
  ELSE LET mid == (lo + hi) \div 2
       IN weighted(board, lo, mid) + weighted(board, mid + 1, hi)

owned(board, cells, v) == Cardinality({c \in cells : board[c[2]][c[1]] = v})

\* The terms of evaluate.  danger is kept in halves: danger2 = 2 * danger.
posv(board, player) ==
  weighted(board, 1, Len(ScanOrder)) * (IF player = BLACK THEN 1 ELSE -1)
corner(board, player) == owned(board, CORNERS, player) - owned(board, CORNERS, -player)
danger2(board, player) ==
  owned(board, ADJ_CORNERS, -player) - owned(board, ADJ_CORNERS, player)
mob(board, player) ==
  Len(legal_moves(board, player)) - Len(legal_moves(board, -player))
stones(board, player) ==
  (count(board, BLACK) - count(board, WHITE)) * (IF player = BLACK THEN 1 ELSE -1)

\* The weights of the phase, phase = filled / 64: early = early32 / 32,
\* mid = mid2048 / 2048, late = late32 / 32.
filled(board) == N * N - count(board, EMPTY)
early32(board) ==
  LET n == filled(board) IN IF 32 - n > 0 THEN 32 - n ELSE 0
mid2048(board) ==
  LET n == filled(board) IN n * (N * N - n)
late32(board) ==
  LET n == filled(board) IN IF n - 32 > 0 THEN n - 32 ELSE 0

\* "mid * (... - 1.2*frontier)": what the frontier adds to evaluate, times
\* 20480 as below.
frontier_term(board, player) ==
  - 12 * mid2048(board) * stable_frontier_penalty(board, player)

\* evaluate, as the exact value of the source's expression times 20480, so
\* that 0.9, 0.6, 1.2, the halves of danger and the phase weights are whole
\* numbers; comparisons of two values are those of the exact values.
evaluate(board, player) ==
  LET p == posv(board, player)
      c == corner(board, player)
      m == mob(board, player)
  IN 64 * early32(board) * (9 * p + 30 * m + 80 * c + 5 * danger2(board, player))
     + mid2048(board) * (6 * p + 40 * m + 80 * c)
     + frontier_term(board, player)
     + 64 * late32(board) * (20 * stones(board, player) + 100 * c)

\* ------------------------------------------------------- search (ai.py)
\* The sort key of order_moves, doubled to stay in whole numbers.
Abs(i) == IF i < 0 THEN -i ELSE i
move_score2(m) ==
  IF m \in CORNERS THEN -200
  ELSE IF m \in ADJ_CORNERS THEN 40
  ELSE Abs(7 - 2 * m[1]) + Abs(7 - 2 * m[2])

\* sorted(moves, key=score) is stable: m goes behind every move whose key
\* is not larger.
RECURSIVE insert_sorted(_, _, _)
insert_sorted(sorted, m, i) ==
  IF i > Len(sorted) THEN Append(sorted, m)
  ELSE IF move_score2(sorted[i]) > move_score2(m)
       THEN SubSeq(sorted, 1, i - 1) \o <<m>> \o SubSeq(sorted, i, Len(sorted))
       ELSE insert_sorted(sorted, m, i + 1)

RECURSIVE order_from(_, _, _)
order_from(moves, i, sorted) ==
  IF i > Len(moves) THEN sorted
  ELSE order_from(moves, i + 1, insert_sorted(sorted, moves[i], 1))

order_moves(moves) == order_from(moves, 1, <<>>)

board_key(board, player) == <<player, board>>

\* Mutant: reset_tt leaves the table as it is.
reset_tt_kept(tt) == tt

\* TT.clear().
reset_tt(tt) == <<>>

\* Mutant: an entry is used whatever depth it was stored with.
usable_entry_any_depth(tt, key, depth) == key \in DOMAIN tt

\* "if entry and entry["depth"] >= depth".
usable_entry(tt, key, depth) == key \in DOMAIN tt /\ tt[key].depth >= depth

\* "TT[key] = {...}".
tt_store(tt, key, value, flag, depth, best) ==
  (key :> [value |-> value, flag |-> flag, depth |-> depth, best |-> best]) @@ tt

\* The clock: left is the number of reads of time.monotonic() that still
\* find the time within the limit, -1 when time_limit is None (no read).
NoLimit == -1
expired(st) == st.left = 0
tick(st) == IF st.left > 0 THEN [st EXCEPT !.left = st.left - 1] ELSE st

\* The flag of the entry stored after the move loop; alpha is the local
\* alpha as the loop left it.
tt_flag(best_val, alpha, beta) ==
  IF best_val >= beta THEN "LOWER"
  ELSE IF best_val <= alpha THEN "UPPER"
  ELSE "EXACT"

\* "move ordering": the list the move loop goes through.  The entry is the
\* one TT.get(key) found, whatever its depth.
loop_order(tt, key, legal) ==
  IF key \in DOMAIN tt /\ tt[key].best # <<>>
  THEN <<tt[key].best>> \o SelectSeq(legal, LAMBDA m : m # tt[key].best)
  ELSE order_moves(legal)

\* search.  st is what the call shares with its callers: TT, the clock, and
\* out_best (root_depth and move).  A result with timeout = TRUE is
\* TimeoutError on its way up.  The operator is the call when loop.i = 0;
\* with loop.i >= 1 it is the rest of the move loop "for (x,y) in legal" of
\* that call from the move loop.legal[loop.i] on, alpha being the local
\* alpha at that point.
NoLoop == [legal |-> <<>>, i |-> 0, best_val |-> -Inf, best_mv |-> <<>>]

RECURSIVE search(_, _, _, _, _, _, _)
search(board, player, depth, alpha, beta, st0, loop) ==
  IF loop.i >= 1
  THEN
    IF loop.i > Len(loop.legal)
    THEN [val |-> loop.best_val, mv |-> loop.best_mv, alpha |-> alpha,
          st |-> st0, timeout |-> FALSE]
    ELSE LET m == loop.legal[loop.i]
             nb == apply_move(board, m[1], m[2], player)
             r == search(nb, -player, depth - 1, -beta, -alpha, st0, NoLoop)
         IN IF r.timeout THEN r
            ELSE LET v == -r.val
                     bv == IF v > loop.best_val THEN v ELSE loop.best_val
                     bm == IF v > loop.best_val THEN m ELSE loop.best_mv
                     a == IF bv > alpha THEN bv ELSE alpha
                 IN IF a >= beta
                    THEN [val |-> bv, mv |-> bm, alpha |-> a, st |-> r.st,
                          timeout |-> FALSE]
                    ELSE search(board, player, depth, a, beta, r.st,
                                [loop EXCEPT !.i = loop.i + 1, !.best_val = bv,
                                             !.best_mv = bm])
  ELSE IF expired(st0)
  THEN [val |-> 0, mv |-> <<>>, alpha |-> alpha, st |-> st0, timeout |-> TRUE]
  ELSE
    LET st == tick(st0)
        key == board_key(board, player)
        found == key \in DOMAIN st.TT
        entry == st.TT[key]
        usable == usable_entry(st.TT, key, depth)
        a1 == IF usable /\ entry.flag = "LOWER" /\ entry.value > alpha
              THEN entry.value ELSE alpha
        b1 == IF usable /\ entry.flag = "UPPER" /\ entry.value < beta
              THEN entry.value ELSE beta
    IN IF usable /\ (entry.flag = "EXACT" \/ a1 >= b1)
       THEN [val |-> entry.value, mv |-> <<>>, alpha |-> a1, st |-> st,
             timeout |-> FALSE]
       ELSE
         LET legal == legal_moves(board, player)
         IN IF depth <= 0 \/ (legal = <<>> /\ legal_moves(board, -player) = <<>>)
            THEN [val |-> evaluate(board, player), mv |-> <<>>, alpha |-> a1,
                  st |-> st, timeout |-> FALSE]
            ELSE IF legal = <<>>
            THEN LET r == search(board, -player, depth - 1, -b1, -a1, st, NoLoop)
                 IN IF r.timeout THEN r
                    ELSE [val |-> -r.val, mv |-> <<>>, alpha |-> a1,
                          st |-> [r.st EXCEPT
                                    !.TT = tt_store(r.st.TT, key, -r.val, "EXACT",
                                                    depth, <<>>)],
                          timeout |-> FALSE]
            ELSE LET ordered == loop_order(st.TT, key, legal)
                     r == search(board, player, depth, a1, b1, st,
                                 [NoLoop EXCEPT !.legal = ordered, !.i = 1])
                 IN IF r.timeout THEN r
                    ELSE [val |-> r.val, mv |-> r.mv, alpha |-> r.alpha,
                          st |-> [r.st EXCEPT
                                    !.TT = tt_store(r.st.TT, key, r.val,
                                                    tt_flag(r.val, r.alpha, b1),
                                                    depth, r.mv),
                                    !.move = IF depth = r.st.root_depth
                                             THEN r.mv ELSE r.st.move],
                          timeout |-> FALSE]

\* The loop "for d in range(1, depth+1)" of choose_move, at iteration d:
\* deepen calls search and iteration is what follows, r being what search
\* returned and st, in deepen, what search is given.  done counts the
\* iterations that returned, timed_out tells that TimeoutError was caught,
\* and raised that an exception left choose_move.
RECURSIVE deepen(_, _, _, _, _, _, _)

\* Mutant: TimeoutError is not caught and leaves choose_move.
iteration_not_catching(board, player, depth, d, best, val, r) ==
  IF r.timeout
  THEN [move |-> <<>>, val |-> val, TT |-> r.st.TT, done |-> d - 1,
        timed_out |-> TRUE, raised |-> TRUE]
  ELSE IF expired(r.st)
  THEN [move |-> IF r.st.move # <<>> THEN r.st.move ELSE best, val |-> r.val,
        TT |-> r.st.TT, done |-> d, timed_out |-> FALSE, raised |-> FALSE]
  ELSE deepen(board, player, depth, d + 1,
              IF r.st.move # <<>> THEN r.st.move ELSE best, r.val, tick(r.st))

iteration(board, player, depth, d, best, val, r) ==
  IF r.timeout
  THEN [move |-> best, val |-> val, TT |-> r.st.TT, done |-> d - 1,
        timed_out |-> TRUE, raised |-> FALSE]
  ELSE IF expired(r.st)
  THEN [move |-> IF r.st.move # <<>> THEN r.st.move ELSE best, val |-> r.val,
        TT |-> r.st.TT, done |-> d, timed_out |-> FALSE, raised |-> FALSE]
  ELSE deepen(board, player, depth, d + 1,
              IF r.st.move # <<>> THEN r.st.move ELSE best, r.val, tick(r.st))

deepen(board, player, depth, d, best, val, st) ==
  IF d > depth
  THEN [move |-> best, val |-> val, TT |-> st.TT, done |-> d - 1,
        timed_out |-> FALSE, raised |-> FALSE]
  ELSE iteration(board, player, depth, d, best, val,
                 search(board, player, d, -Inf, Inf,
                        [st EXCEPT !.root_depth = d], NoLoop))

\* Mutant: the move held before the first iteration is the first cell of
\* the board, not the first legal move.
choose_move_from_first_cell(board, player, depth, left, tt) ==
  IF legal_moves(board, player) = <<>>
  THEN [move |-> <<>>, val |-> 0, TT |-> tt, done |-> 0,
        timed_out |-> FALSE, raised |-> FALSE]
  ELSE deepen(board, player, depth, 1, ScanOrder[1], 0,
              [TT |-> tt, left |-> left, root_depth |-> depth, move |-> <<>>])

\* choose_move with TT as it finds it; the result carries TT as it leaves it.
choose_move(board, player, depth, left, tt) ==
  LET legal == legal_moves(board, player)
  IN IF legal = <<>>
     THEN [move |-> <<>>, val |-> 0, TT |-> tt, done |-> 0,
           timed_out |-> FALSE, raised |-> FALSE]
     ELSE deepen(board, player, depth, 1, legal[1], 0,
                 [TT |-> tt, left |-> left, root_depth |-> depth, move |-> <<>>])

\* One call of search at the root, on its own: the move out_best holds after.
search_root(board, player, depth, tt) ==
  LET r == search(board, player, depth, -Inf, Inf,
                  [TT |-> tt, left |-> NoLimit, root_depth |-> depth, move |-> <<>>],
                  NoLoop)
  IN [move |-> r.st.move, val |-> r.val, TT |-> r.st.TT]

\* ---------------------------------------------------------- persistence
\* numpy's int8 conversion of a list element.
int8(v) == ((v + 128) % 256) - 128

\* Mutant: the rows of the saved board are the columns of the board.
to_dict_transposed(self) ==
  [mode |-> self.mode, current_player |-> self.current_player,
   pass_streak |-> self.pass_streak,
   board |-> [r \in 1 .. N |-> [c \in 1 .. N |-> self.board[c - 1][r - 1]]],
   move_history |-> self.move_history,
   last_move |-> self.last_move]

\* board.astype(int).tolist() is a list of rows; last_move becomes a list.
to_dict(self) ==
  [mode |-> self.mode, current_player |-> self.current_player,
   pass_streak |-> self.pass_streak,
   board |-> [r \in 1 .. N |-> [c \in 1 .. N |-> self.board[r - 1][c - 1]]],
   move_history |-> self.move_history,
   last_move |-> self.last_move]

\* Python's d.get(k, default).
Get(d, k, default) == IF k \in DOMAIN d THEN d[k] ELSE default

\* np.array(rows, dtype=np.int8) takes a list of rows of one length,
\* whatever the two sizes are, and raises for rows of different lengths.
Rectangular(rows) == \A i \in 1 .. Len(rows) : Len(rows[i]) = Len(rows[1])
array(rows) ==
  [y \in 0 .. (Len(rows) - 1) |->
     [x \in 0 .. (Len(rows[1]) - 1) |-> int8(rows[y + 1][x + 1])]]

\* load_dict assigns field after field; raised tells that d["board"] or
\* np.array raised, and self is then the object with the fields assigned
\* before that line.
load_dict(self, d) ==
  LET head == [self EXCEPT
                 !.mode = Get(d, "mode", self.mode),
                 !.current_player = Get(d, "current_player", self.current_player),
                 !.pass_streak = Get(d, "pass_streak", 0)]
      lm == Get(d, "last_move", <<>>)
  IN IF "board" \notin DOMAIN d \/ ~Rectangular(d.board)
     THEN [self |-> head, raised |-> TRUE]
     ELSE [self |-> [head EXCEPT
                       !.board = array(d.board),
                       !.move_history = Get(d, "move_history", <<>>),
                       !.last_move = IF lm = <<>> THEN <<>> ELSE <<lm[1], lm[2]>>,
                       !.history = <<>>, !.future = <<>>],
           raised |-> FALSE]

\* Games played earlier, as lists of the moves made (<<>> is a pass); the
\* records the autosave wrote for them are what a later start finds stored.
PassGame ==
  << <<3, 2>>, <<2, 2>>, <<1, 2>>, <<1, 1>>, <<5, 4>>, <<0, 2>>, <<0, 0>> >>
WipeoutGame ==
  << <<3, 2>>, <<2, 2>>, <<1, 2>>, <<3, 1>>, <<4, 0>>, <<3, 5>>, <<3, 6>>, <<4, 2>> >>
EndGame ==
  << <<4, 5>>, <<5, 5>>, <<6, 5>>, <<2, 4>>, <<2, 3>>, <<4, 2>>, <<3, 2>>, <<6, 6>>,
     <<5, 3>>, <<2, 2>>, <<1, 3>>, <<4, 6>>, <<1, 5>>, <<6, 4>>, <<5, 6>>, <<2, 5>>,
     <<3, 1>>, <<1, 1>>, <<3, 5>>, <<0, 4>>, <<5, 2>>, <<5, 7>>, <<6, 3>>, <<4, 0>>,
     <<5, 4>>, <<0, 5>>, <<2, 0>>, <<2, 1>>, <<6, 7>>, <<7, 4>>, <<2, 6>>, <<3, 6>>,
     <<0, 3>>, <<7, 6>>, <<3, 7>>, <<1, 4>>, <<4, 7>>, <<7, 2>>, <<1, 0>>, <<4, 1>>,
     <<0, 2>>, <<1, 2>>, <<0, 1>>, <<0, 0>>, <<6, 2>>, <<2, 7>>, <<1, 7>>, <<1, 6>>,
     <<0, 7>>, <<7, 1>>, <<0, 6>>, <<7, 3>>, <<3, 0>>, <<7, 7>>, <<6, 1>>, <<6, 0>>,
     <<7, 5>>, <<5, 0>>, <<5, 1>> >>

LateGame ==
  <<<<4, 5>>, <<3, 5>>, <<2, 4>>, <<1, 3>>, <<2, 2>>, <<3, 1>>, <<1, 1>>, <<5, 4>>,
     <<1, 5>>, <<4, 6>>, <<2, 5>>, <<4, 2>>, <<5, 7>>, <<4, 7>>, <<0, 4>>, <<1, 6>>,
     <<3, 7>>, <<0, 2>>, <<5, 3>>, <<1, 4>>, <<4, 1>>, <<6, 2>>, <<2, 1>>, <<0, 0>>,
     <<6, 3>>, <<5, 2>>, <<5, 5>>, <<4, 0>>, <<2, 3>>, <<7, 4>>, <<7, 1>>, <<6, 6>>,
     <<6, 5>>, <<7, 5>>, <<6, 4>>, <<3, 2>>, <<0, 5>>, <<2, 6>>, <<0, 1>>, <<3, 6>>,
     <<0, 6>>, <<5, 6>>, <<3, 0>>, <<2, 0>>, <<5, 1>>, <<7, 2>>, <<1, 2>>, <<6, 1>>,
     <<1, 0>>, <<7, 0>>, <<0, 3>>, <<0, 7>>, <<7, 6>>, <<7, 3>>, <<6, 0>>, <<1, 7>> >>

RECURSIVE play(_, _, _)
play(self, game, i) ==
  IF i > Len(game) \/ count(self.board, EMPTY) = 0 THEN self
  ELSE play(IF game[i] = <<>> THEN pass_turn(self).self
            ELSE make_move(self, game[i][1], game[i][2]).self,
            game, i + 1)

SavedGames ==
  {to_dict(play(Game("AI_WHITE"), g, 1)) : g \in {PassGame, WipeoutGame, EndGame}}

\* ---------------------------------------------------------------- state
VARIABLES mode, board, current_player, pass_streak, history, future,
          move_history, last_move,
          op,   \* the method called last
          ret,  \* what it returned: "True", "False" or "None"
          node, \* the call of search in progress: board, player, depth
          TT,      \* the transposition table of ai.py
          storage, \* the item of localStorage: <<>> or <<the record saved>>
          console, \* the warnings written to the console
          call,    \* the last call of choose_move and what it returned
          busy,    \* UI.busy
          tasks,   \* the tasks of the event loop that have not finished
          events   \* the number of events of the user handled so far

vars == <<mode, board, current_player, pass_streak, history, future,
          move_history, last_move, op, ret, node, TT, storage, console, call,
          busy, tasks, events>>

\* What the methods of Game never touch.
ui == <<TT, storage, console, call>>
async == <<busy, tasks, events>>

Self ==
  [mode |-> mode, board |-> board, current_player |-> current_player,
   pass_streak |-> pass_streak, history |-> history, future |-> future,
   move_history |-> move_history, last_move |-> last_move]

Becomes(self) ==
  /\ mode' = self.mode
  /\ board' = self.board
  /\ current_player' = self.current_player
  /\ pass_streak' = self.pass_streak
  /\ history' = self.history
  /\ future' = self.future
  /\ move_history' = self.move_history
  /\ last_move' = self.last_move

Returned(name, r) ==
  /\ Becomes(r.self)
  /\ op' = name
  /\ ret' = IF r.ret THEN "True" ELSE "False"
  /\ UNCHANGED <<node, ui, async>>

\* No search has been called.
Idle == [board |-> _init_board, player |-> BLACK, depth |-> 0]

\* choose_move has not been called: n counts the calls.
NoCall ==
  [n |-> 0, board |-> _init_board, player |-> BLACK, depth |-> 0,
   left |-> NoLimit, tt0 |-> <<>>, move |-> <<>>, val |-> 0, done |-> 0,
   timed_out |-> FALSE, raised |-> FALSE]

\* The module ai.py just imported and nothing stored.
\* UI.busy as __init__ sets it, no task started and no event handled.
Quiet == busy = FALSE /\ tasks = <<>> /\ events = 0

Fresh ==
  TT = <<>> /\ storage = <<>> /\ console = <<>> /\ call = NoCall /\ Quiet

\* The fields of a newly made object.
Is(self) ==
  /\ mode = self.mode
  /\ board = self.board
  /\ current_player = self.current_player
  /\ pass_streak = self.pass_streak
  /\ history = self.history
  /\ future = self.future
  /\ move_history = self.move_history
  /\ last_move = self.last_move

Init ==
  /\ Is(Game("AI_WHITE"))
  /\ op = "__init__"
  /\ ret = "None"
  /\ node = Idle
  /\ Fresh

\* What make_move returns and leaves behind, for every cell it can be given.
make_move_calls(self) ==
  LET moves == get_legal_moves(self)
  IN {make_move_on(self, c[1], c[2], moves) : c \in Cells}

MakeMove ==
  \E r \in make_move_calls(Self) :
    /\ Len(history) < MaxHistory \/ ~r.ret
    /\ Returned("make_move", r)

PassTurn ==
  LET r == pass_turn(Self)
  IN /\ Len(history) < MaxHistory \/ ~r.ret
     /\ Returned("pass_turn", r)

Undo == \E steps \in 1 .. MaxSteps : Returned("undo", undo(Self, steps))

Redo == \E steps \in 1 .. MaxSteps : Returned("redo", redo(Self, steps))

Reset ==
  Becomes(reset(Self)) /\ op' = "reset" /\ ret' = "None" /\ UNCHANGED <<node, ui, async>>

LoadDict ==
  \E d \in SavedGames :
    /\ Becomes(load_dict(Self, d).self)
    /\ op' = "load_dict" /\ ret' = "None" /\ UNCHANGED <<node, ui, async>>

Next == MakeMove \/ PassTurn \/ Undo \/ Redo \/ Reset \/ LoadDict

Spec == Init /\ [][Next]_vars

\* ------------------------------------------------- a game played through
\* A session that no load_dict touched: a fresh game, or a game played from
\* a fresh one, by make_move and pass_turn, through a pass (EndGame and the
\* pass that follows it) or to its end (WipeoutGame, the move that takes
\* the last WHITE stone and the two passes that follow), and then
\* make_move, pass_turn, undo, redo and reset.
PlayedGames ==
  {<<>>, EndGame \o << <<>> >>, WipeoutGame \o << <<5, 3>>, <<>>, <<>> >>}
Played == {play(Game("AI_WHITE"), g, 1) : g \in PlayedGames}

InitPlay ==
  /\ \E s \in Played :
       /\ Is(s)
       /\ op = IF s.move_history = <<>> THEN "__init__"
               ELSE IF s.pass_streak > 0 THEN "pass_turn" ELSE "make_move"
       /\ ret = IF s.move_history = <<>> THEN "None" ELSE "True"
  /\ node = Idle
  /\ Fresh

NextPlay == MakeMove \/ PassTurn \/ Undo \/ Redo \/ Reset

SpecPlay == InitPlay /\ [][NextPlay]_vars

\* ------------------------------------------------------- the search tree
\* The boards search is called with: choose_move starts it on the board of
\* a session, here any position of the three games, and search calls itself
\* on the board after each legal move, or on the same board after a pass,
\* with the other player and depth - 1, until the leaf test stops it.
Positions ==
  UNION {{play(Game("AI_WHITE"), SubSeq(g, 1, n), 1) : n \in 0 .. Len(g)} :
           g \in {PassGame, WipeoutGame, EndGame}}

\* The boards of the recursive calls of one call of search.
children(b, player) ==
  LET legal == legal_moves(b, player)
  IN {apply_move(b, legal[i][1], legal[i][2], player) : i \in 1 .. Len(legal)}

InitSearch ==
  /\ Is(Game("AI_WHITE"))
  /\ op = "choose_move"
  /\ ret = "None"
  /\ Fresh
  /\ \E root \in Positions :
       node = [board |-> root.board, player |-> root.current_player,
               depth |-> MaxDepth]

\* "for (x,y) in legal: nb = Game.apply_move(...); search(nb, -player, depth-1, ...)".
MoveNode ==
  /\ ~search_is_leaf(node.board, node.player, node.depth)
  /\ \E nb \in children(node.board, node.player) :
       node' = [board |-> nb, player |-> -node.player, depth |-> node.depth - 1]
  /\ UNCHANGED <<mode, board, current_player, pass_streak, history, future,
                 move_history, last_move, op, ret, ui, async>>

\* "if not legal: search(board, -player, depth-1, ...)".
PassNode ==
  /\ ~search_is_leaf(node.board, node.player, node.depth)
  /\ legal_moves(node.board, node.player) = <<>>
  /\ node' = [node EXCEPT !.player = -node.player, !.depth = node.depth - 1]
  /\ UNCHANGED <<mode, board, current_player, pass_streak, history, future,
                 move_history, last_move, op, ret, ui, async>>

NextSearch == MoveNode \/ PassNode

SpecSearch == InitSearch /\ [][NextSearch]_vars

\* ------------------------------------------------ restoring a saved game
\* What a start can find stored.  A record the autosave wrote, or such a
\* record damaged: without its board, with rows missing, with a row cut
\* short, or with a cell that is no stone value.
WithoutBoard(d) == [k \in DOMAIN d \ {"board"} |-> d[k]]
Damaged(d) ==
  {WithoutBoard(d)}
  \cup {[d EXCEPT !.board = SubSeq(d.board, 1, k)] : k \in 1 .. (N - 1)}
  \cup {[d EXCEPT !.board[N] = SubSeq(d.board[N], 1, N - 1)]}
  \cup {[d EXCEPT !.board[c[2] + 1][c[1] + 1] = 2] : c \in Cells}
StoredRecords == SavedGames \cup UNION {Damaged(d) : d \in SavedGames}

InitRestore ==
  /\ Is(Game("AI_WHITE"))
  /\ op = "__init__"
  /\ ret = "None"
  /\ node = Idle
  /\ TT = <<>> /\ console = <<>> /\ call = NoCall /\ Quiet
  /\ \E d \in StoredRecords : storage = <<d>>

\* UI._try_restore, called once by UI.__init__: load_dict and reset_tt, and
\* a warning when either raised.
TryRestore ==
  /\ op = "__init__"
  /\ IF storage = <<>>
     THEN UNCHANGED <<mode, board, current_player, pass_streak, history, future,
                      move_history, last_move, TT, console>>
     ELSE LET r == load_dict(Self, storage[1])
          IN /\ Becomes(r.self)
             /\ TT' = IF r.raised THEN TT ELSE reset_tt(TT)
             /\ console' = IF r.raised THEN Append(console, "restore failed")
                           ELSE console
  /\ op' = "_try_restore"
  /\ ret' = "None"
  /\ UNCHANGED <<node, storage, call, async>>

NextRestore == TryRestore

SpecRestore == InitRestore /\ [][NextRestore]_vars

\* ------------------------------------------------- calls of choose_move
\* The depths choose_move is asked for and the time limits it is given, as
\* numbers of clock reads within the limit.
Depths == 1 .. MaxSearchDepth
Lefts == {NoLimit, 0, MaxReads}

\* One call of choose_move, and TT as the call leaves it; n counts calls and
\* r is what the call returned.
returned(r, b, player, depth, left, tt, n) ==
  [call |-> [n |-> n + 1, board |-> b, player |-> player, depth |-> depth,
             left |-> left, tt0 |-> tt, move |-> r.move, val |-> r.val,
             done |-> r.done, timed_out |-> r.timed_out, raised |-> r.raised],
   TT |-> r.TT]

called(b, player, depth, left, tt, n) ==
  returned(choose_move(b, player, depth, left, tt), b, player, depth, left, tt, n)

\* The positions choose_move is called on: late positions of EndGame, and
\* its last, where the player to move has no move.
ChoosePrefixes == {50, 54, 56}
ChooseRoots ==
  {play(Game("AI_WHITE"), EndGame, 1)}
  \cup {play(Game("AI_WHITE"), SubSeq(EndGame, 1, n), 1) : n \in ChoosePrefixes}

InitChoose ==
  /\ Is(Game("AI_WHITE"))
  /\ op = "import"
  /\ ret = "None"
  /\ Fresh
  /\ \E root \in ChooseRoots :
       node = [board |-> root.board, player |-> root.current_player, depth |-> 0]

choose_calls(b, player, tt, n) ==
  {called(b, player, depth, left, tt, n) : depth \in Depths, left \in Lefts}

\* choose_move(board, player, depth, time_limit_ms) on the position held.
ChooseMove ==
  /\ call.n < MaxCalls
  /\ \E c \in choose_calls(node.board, node.player, TT, call.n) :
       call' = c.call /\ TT' = c.TT
  /\ op' = "choose_move"
  /\ ret' = "None"
  /\ UNCHANGED <<mode, board, current_player, pass_streak, history, future,
                 move_history, last_move, node, storage, console, async>>

\* reset_tt().
ResetTT ==
  /\ TT' = reset_tt(TT)
  /\ op' = "reset_tt"
  /\ ret' = "None"
  /\ UNCHANGED <<mode, board, current_player, pass_streak, history, future,
                 move_history, last_move, node, storage, console, call, async>>

NextChoose == ChooseMove \/ ResetTT

SpecChoose == InitChoose /\ [][NextChoose]_vars

\* ------------------------------------------- choose_move near the end
\* Calls of choose_move on the last positions of LateGame, where few squares
\* are empty and a search of depth MaxDeepDepth reaches the end of the game
\* through nodes where the player to move has to pass.
DeepDepths == 1 .. MaxDeepDepth
DeepPrefixes == {55, 56}
DeepRoots ==
  {play(Game("AI_WHITE"), SubSeq(LateGame, 1, n), 1) : n \in DeepPrefixes}

InitDeep ==
  /\ Is(Game("AI_WHITE"))
  /\ op = "import"
  /\ ret = "None"
  /\ Fresh
  /\ \E root \in DeepRoots :
       node = [board |-> root.board, player |-> root.current_player, depth |-> 0]

deep_calls(b, player, tt, n) ==
  {called(b, player, depth, left, tt, n) : depth \in DeepDepths, left \in Lefts}

\* choose_move(board, player, depth, time_limit_ms) on the position held.
ChooseDeep ==
  /\ call.n < MaxCalls
  /\ \E c \in deep_calls(node.board, node.player, TT, call.n) :
       call' = c.call /\ TT' = c.TT
  /\ op' = "choose_move"
  /\ ret' = "None"
  /\ UNCHANGED <<mode, board, current_player, pass_streak, history, future,
                 move_history, last_move, node, storage, console, async>>

NextDeep == ChooseDeep \/ ResetTT

SpecDeep == InitDeep /\ [][NextDeep]_vars

\* ----------------------------------------------------------------- the UI
\* The games found stored when the UI starts: late positions of EndGame,
\* and its last, saved in AI_VS_AI mode.
UiPrefixes == {48, 50, 52, 54, 56}
UiPositions ==
  {play(Game("AI_VS_AI"), EndGame, 1)}
  \cup {play(Game("AI_VS_AI"), SubSeq(EndGame, 1, n), 1) : n \in UiPrefixes}
UiSaves == {to_dict(p) : p \in UiPositions}

InitUI ==
  /\ Is(Game("AI_WHITE"))
  /\ op = "__init__"
  /\ ret = "None"
  /\ node = Idle
  /\ TT = <<>> /\ console = <<>> /\ call = NoCall /\ Quiet
  /\ \E d \in UiSaves : storage = <<d>>

\* The calls the UI makes: the depth of the selector and time_limit_ms,
\* which the UI leaves None.
ai_calls(b, player, tt, n) ==
  {called(b, player, depth, NoLimit, tt, n) : depth \in 1 .. MaxUiDepth}

\* UI._on_hint: the move is shown as the last move and not played.
OnHint ==
  /\ op # "__init__"
  /\ call.n < MaxCalls
  /\ \E c \in ai_calls(board, current_player, TT, call.n) :
       /\ call' = c.call
       /\ TT' = c.TT
       /\ last_move' = IF c.call.move = <<>> THEN last_move ELSE c.call.move
  /\ op' = "_on_hint"
  /\ ret' = "None"
  /\ UNCHANGED <<mode, board, current_player, pass_streak, history, future,
                 move_history, node, storage, console, async>>

\* The player ai_once is called for by _step_ai_loop; 0 when there is none.
ai_player_of(self) ==
  IF self.mode = "AI_VS_AI" THEN self.current_player
  ELSE IF self.mode = "AI_WHITE" THEN WHITE
  ELSE IF self.mode = "AI_BLACK" THEN BLACK
  ELSE 0

\* Mutant: ai_once never makes the move choose_move gave it.
ai_once_moves_not_moving(self, ai_player, tt, n) ==
  {[self |-> self, call |-> c.call, TT |-> c.TT] :
     c \in ai_calls(self.board, ai_player, tt, n)}

\* What ai_once leaves after its call of choose_move: the move is made when
\* there is one and it is still the turn of ai_player.
ai_once_moves(self, ai_player, tt, n) ==
  {[self |-> IF c.call.move # <<>> /\ self.current_player = ai_player
             THEN make_move(self, c.call.move[1], c.call.move[2]).self
             ELSE self,
    call |-> c.call, TT |-> c.TT] :
     c \in ai_calls(self.board, ai_player, tt, n)}

\* UI._step_ai_loop, one round: a pass when ai_player has no move, and
\* otherwise choose_move and the move.  force is set by a reset.
StepAiLoop ==
  /\ op # "__init__"
  /\ ~is_game_over(Self)
  /\ ai_player_of(Self) # 0
  /\ \E force \in BOOLEAN :
       mode = "AI_VS_AI" \/ force \/ current_player = ai_player_of(Self)
  /\ IF legal_moves(board, ai_player_of(Self)) = <<>>
     THEN /\ Becomes(pass_turn(Self).self)
          /\ UNCHANGED <<TT, call>>
     ELSE /\ call.n < MaxCalls
          /\ \E r \in ai_once_moves(Self, ai_player_of(Self), TT, call.n) :
               Becomes(r.self) /\ call' = r.call /\ TT' = r.TT
  /\ op' = "_step_ai_loop"
  /\ ret' = "None"
  /\ UNCHANGED <<node, storage, console, async>>

\* UI._on_reset: game.reset() and AI.reset_tt().
OnReset ==
  /\ op # "__init__"
  /\ Becomes(reset(Self))
  /\ TT' = reset_tt(TT)
  /\ op' = "_on_reset"
  /\ ret' = "None"
  /\ UNCHANGED <<node, storage, console, call, async>>

NextUI == TryRestore \/ OnHint \/ StepAiLoop \/ OnReset

SpecUI == InitUI /\ [][NextUI]_vars

\* ----------------------------------------------- the event loop of the UI
\* A task is a coroutine started with asyncio.ensure_future and not yet
\* finished.  pc is the await it is suspended at: "start" when it has not
\* run yet, "pass" in the sleep of PASS_OVERLAY_MS, "think" in the sleep of
\* ai_delay, "yield" in the sleep(0) of the AI_VS_AI loop.  ai_player is the
\* argument of ai_once and looping tells that ai_once was called from the
\* AI_VS_AI loop.  superseded names the handler, _on_reset or
\* _on_mode_change, that ran last while the task was inside ai_once, ""
\* when none did.  A handler runs from its start to its end; a task runs from one
\* await to the next; the order in which the sleeping tasks wake is open.
\* The result overlay and its task change nothing of the session and are
\* left out, and the autosave toggle is unchecked.
Task(name, force) ==
  [name |-> name, pc |-> "start", force |-> force, ai_player |-> 0,
   looping |-> FALSE, superseded |-> ""]

Without(ts, i) == SubSeq(ts, 1, i - 1) \o SubSeq(ts, i + 1, Len(ts))

\* The handler by runs: the AI turns in flight, the tasks of _step_ai_loop
\* suspended inside ai_once, are marked with it.
Supersede(ts, by) ==
  [i \in 1 .. Len(ts) |->
     IF ts[i].name = "_step_ai_loop" /\ ts[i].pc \in {"pass", "think"}
     THEN [ts[i] EXCEPT !.superseded = by] ELSE ts[i]]

\* render(), its last line: "asyncio.ensure_future(self._check_auto_pass_and_result())".
render(ts) == Append(ts, Task("_check_auto_pass_and_result", FALSE))

\* "asyncio.ensure_future(self._step_ai_loop(force))" after render().
render_and_step(ts, force) == Append(render(ts), Task("_step_ai_loop", force))

\* The values of the mode selector.
UiModes == {"PVP", "AI_WHITE", "AI_VS_AI"}

\* The handler name has run for one more event.
Handled(name) ==
  /\ events < MaxEvents
  /\ events' = events + 1
  /\ op' = name
  /\ ret' = "None"

\* UI._on_cell_click.
_on_cell_click ==
  /\ ~busy
  /\ \E r \in make_move_calls(Self) :
       /\ ~r.ret \/ (Len(history) < MaxHistory /\ Len(tasks) + 2 <= MaxTasks)
       /\ Becomes(r.self)
       /\ tasks' = IF r.ret THEN render_and_step(tasks, FALSE) ELSE tasks
  /\ Handled("_on_cell_click")
  /\ UNCHANGED <<node, ui, busy>>

\* UI._on_pass.
_on_pass ==
  /\ ~busy
  /\ LET r == pass_turn(Self)
     IN /\ ~r.ret \/ (Len(history) < MaxHistory /\ Len(tasks) + 2 <= MaxTasks)
        /\ Becomes(r.self)
        /\ tasks' = IF r.ret THEN render_and_step(tasks, FALSE) ELSE tasks
  /\ Handled("_on_pass")
  /\ UNCHANGED <<node, ui, busy>>

\* UI._on_reset.
_on_reset ==
  /\ ~busy
  /\ Len(tasks) + 2 <= MaxTasks
  /\ Becomes(reset(Self))
  /\ TT' = reset_tt(TT)
  /\ tasks' = render_and_step(Supersede(tasks, "_on_reset"), TRUE)
  /\ Handled("_on_reset")
  /\ UNCHANGED <<node, storage, console, call, busy>>

\* "steps = 2 if self.game.mode in ("AI_WHITE", "AI_BLACK") else 1".
ui_steps(self) == IF self.mode \in {"AI_WHITE", "AI_BLACK"} THEN 2 ELSE 1

\* UI._on_undo.
_on_undo ==
  /\ ~busy
  /\ LET r == undo(Self, ui_steps(Self))
     IN /\ ~r.ret \/ Len(tasks) < MaxTasks
        /\ Becomes(r.self)
        /\ tasks' = IF r.ret THEN render(tasks) ELSE tasks
  /\ Handled("_on_undo")
  /\ UNCHANGED <<node, ui, busy>>

\* UI._on_redo.
_on_redo ==
  /\ ~busy
  /\ LET r == redo(Self, ui_steps(Self))
     IN /\ ~r.ret \/ Len(tasks) < MaxTasks
        /\ Becomes(r.self)
        /\ tasks' = IF r.ret THEN render(tasks) ELSE tasks
  /\ Handled("_on_redo")
  /\ UNCHANGED <<node, ui, busy>>

\* UI._on_hint.
_on_hint ==
  /\ ~busy
  /\ call.n < MaxCalls
  /\ Len(tasks) < MaxTasks
  /\ \E c \in ai_calls(board, current_player, TT, call.n) :
       /\ call' = c.call
       /\ TT' = c.TT
       /\ last_move' = IF c.call.move = <<>> THEN last_move ELSE c.call.move
       /\ tasks' = IF c.call.move = <<>> THEN tasks ELSE render(tasks)
  /\ Handled("_on_hint")
  /\ UNCHANGED <<mode, board, current_player, pass_streak, history, future,
                 move_history, node, storage, console, busy>>

\* UI._on_mode_change: it does not look at busy.
_on_mode_change ==
  /\ Len(tasks) + 2 <= MaxTasks
  /\ \E m \in UiModes : mode' = m
  /\ tasks' = render_and_step(Supersede(tasks, "_on_mode_change"), TRUE)
  /\ Handled("_on_mode_change")
  /\ UNCHANGED <<board, current_player, pass_streak, history, future,
                 move_history, last_move, node, ui, busy>>

\* UI._on_clear_moves.
_on_clear_moves ==
  /\ Len(tasks) < MaxTasks
  /\ move_history' = <<>>
  /\ tasks' = render(tasks)
  /\ Handled("_on_clear_moves")
  /\ UNCHANGED <<mode, board, current_player, pass_streak, history, future,
                 last_move, node, ui, busy>>

\* ai_once(ai_player) up to its await: the task of index i after it.
ai_once(ts, i, self, ai_player, looping) ==
  [ts EXCEPT ![i].pc = IF legal_moves(self.board, ai_player) = <<>>
                       THEN "pass" ELSE "think",
             ![i].ai_player = ai_player,
             ![i].looping = looping]

\* The task of index i after ai_once returned: the AI_VS_AI loop goes to its
\* sleep(0), the one-sided round is over.
after_ai_once(ts, i) ==
  IF ts[i].looping THEN [ts EXCEPT ![i].pc = "yield"] ELSE Without(ts, i)

\* _check_auto_pass_and_result from its start to its await or its end.
check_start(i) ==
  /\ IF is_game_over(Self) \/ legal_moves(board, current_player) # <<>>
     THEN tasks' = Without(tasks, i) /\ busy' = busy
     ELSE tasks' = [tasks EXCEPT ![i].pc = "pass"] /\ busy' = TRUE
  /\ UNCHANGED <<mode, board, current_player, pass_streak, history, future,
                 move_history, last_move, TT, call>>

\* _step_ai_loop from its start, or from the sleep(0) of its loop, to the
\* await of ai_once or to its end.
step_start(i) ==
  /\ IF is_game_over(Self)
     THEN tasks' = Without(tasks, i) /\ busy' = busy
     ELSE IF tasks[i].pc = "yield" \/ mode = "AI_VS_AI"
     THEN IF mode = "AI_VS_AI"
          THEN tasks' = ai_once(tasks, i, Self, current_player, TRUE) /\ busy' = TRUE
          ELSE tasks' = Without(tasks, i) /\ busy' = busy
     ELSE IF ai_player_of(Self) = 0
             \/ (~tasks[i].force /\ current_player # ai_player_of(Self))
     THEN tasks' = Without(tasks, i) /\ busy' = busy
     ELSE tasks' = ai_once(tasks, i, Self, ai_player_of(Self), FALSE) /\ busy' = TRUE
  /\ UNCHANGED <<mode, board, current_player, pass_streak, history, future,
                 move_history, last_move, TT, call>>

\* After the sleep of PASS_OVERLAY_MS, in ai_once and in
\* _check_auto_pass_and_result: "if self.game.pass_turn(): self.render()"
\* and "finally: self.busy = False".
pass_wake(i) ==
  /\ LET r == pass_turn(Self)
         ts == IF tasks[i].name = "_step_ai_loop" THEN after_ai_once(tasks, i)
               ELSE Without(tasks, i)
     IN /\ Becomes(r.self)
        /\ tasks' = IF r.ret THEN render(ts) ELSE ts
  /\ busy' = FALSE
  /\ UNCHANGED <<TT, call>>

\* After the sleep of ai_delay in ai_once: choose_move, and the move when
\* there is one and it is the turn of ai_player.
think_wake(i) ==
  /\ \E r \in ai_once_moves(Self, tasks[i].ai_player, TT, call.n) :
       /\ Becomes(r.self)
       /\ call' = r.call
       /\ TT' = r.TT
       /\ tasks' = IF r.call.move # <<>> /\ current_player = tasks[i].ai_player
                   THEN render(after_ai_once(tasks, i))
                   ELSE after_ai_once(tasks, i)
  /\ busy' = FALSE

\* The event loop runs the task of index i to its next await.
RunTask(i) ==
  /\ IF tasks[i].pc = "pass" THEN pass_wake(i)
     ELSE IF tasks[i].pc = "think" THEN think_wake(i)
     ELSE IF tasks[i].name = "_step_ai_loop" THEN step_start(i)
     ELSE check_start(i)
  /\ op' = tasks[i].name
  /\ ret' = "None"
  /\ UNCHANGED <<node, storage, console, events>>

\* Some task runs; choose_move is called at most turns times in one run.
Run(turns) ==
  \E i \in 1 .. Len(tasks) :
    /\ tasks[i].pc = "think" => call.n < turns
    /\ RunTask(i)
    /\ Len(tasks') <= MaxTasks

RunSome == Run(MaxCalls)

\* The games found stored: EndGame before its last moves, saved in
\* AI_VS_AI mode.
TaskPrefixes == {54, 56}
TaskSaves ==
  {to_dict(play(Game("AI_VS_AI"), SubSeq(EndGame, 1, n), 1)) : n \in TaskPrefixes}

\* The UI after its start on a stored game, its handlers called by the
\* user in any order and its tasks run between them.
InitTasks ==
  /\ \E d \in TaskSaves : Is(load_dict(Game("AI_WHITE"), d).self) /\ storage = <<d>>
  /\ op = "_try_restore"
  /\ ret = "None"
  /\ node = Idle
  /\ TT = <<>> /\ console = <<>> /\ call = NoCall /\ Quiet

NextTasks ==
  \/ _on_cell_click \/ _on_pass \/ _on_reset \/ _on_undo \/ _on_redo
  \/ _on_hint \/ _on_mode_change \/ _on_clear_moves \/ RunSome

SpecTasks == InitTasks /\ [][NextTasks]_vars

\* ------------------------------------------------------- AI against AI
\* The UI after _on_mode_change set AI_VS_AI on a stored game, left to its
\* tasks: the user does nothing more.  The event loop runs every task that
\* is ready and every sleep ends, so a step that stays possible is taken.
InitAuto ==
  /\ \E d \in UiSaves : Is(load_dict(Game("AI_WHITE"), d).self) /\ storage = <<d>>
  /\ op = "_on_mode_change"
  /\ ret = "None"
  /\ node = Idle
  /\ TT = <<>> /\ console = <<>> /\ call = NoCall
  /\ busy = FALSE
  /\ tasks = render_and_step(<<>>, TRUE)
  /\ events = 1

RunAuto == Run(MaxTurns)

NextAuto == RunAuto

SpecAuto == InitAuto /\ [][NextAuto]_vars /\ WF_vars(NextAuto)

\* ------------------------------------------------------------ properties
\* The rules of the game stated on their own, without the loops of the code.
At(b, c) == b[c[2]][c[1]]
Directions == {d \in (-1 .. 1) \X (-1 .. 1) : d # <<0, 0>>}
Ahead(c, d, k) == <<c[1] + k * d[1], c[2] + k * d[2]>>
InBoard(c) == c[1] \in Idx /\ c[2] \in Idx

\* From c in direction d: an opponent stone next to c, opponent stones up
\* to place k - 1 and a stone of p at place k, all on the board.
Bracketed(b, c, d, p, k) ==
  /\ InBoard(Ahead(c, d, k))
  /\ At(b, Ahead(c, d, k)) = p
  /\ \A j \in 1 .. (k - 1) : At(b, Ahead(c, d, j)) = -p

NextToOpponent(b, c, d, p) ==
  InBoard(Ahead(c, d, 1)) /\ At(b, Ahead(c, d, 1)) = -p

LegalCells(b, p) ==
  {c \in Cells : /\ At(b, c) = EMPTY
                 /\ \E d \in Directions :
                      /\ NextToOpponent(b, c, d, p)
                      /\ \E k \in 2 .. (N - 1) : Bracketed(b, c, d, p, k)}

Elems(seq) == {seq[i] : i \in 1 .. Len(seq)}
Stones(b) == count(b, BLACK) + count(b, WHITE)
Turned(b, out, p) == {c \in Cells : At(b, c) = -p /\ At(out, c) = p}
Visible(self) ==
  <<self.board, self.current_player, self.move_history, self.last_move,
    self.pass_streak>>
NoMoveLeft(b) == LegalCells(b, BLACK) = {} /\ LegalCells(b, WHITE) = {}

\* C1: for the board of every call of search and both players, legal_moves
\* lists, each once, exactly the EMPTY cells from which some direction
\* crosses one or more opponent stones and then reaches a stone of the
\* player; the list is empty when there is no such cell.
C1_LegalMovesExact ==
  \A p \in Players :
    LET lm == legal_moves(node.board, p)
    IN /\ \A i, j \in 1 .. Len(lm) : lm[i] = lm[j] => i = j
       /\ Elems(lm) = LegalCells(node.board, p)

\* C1 witness: a board reached by a move on which the list is empty for one
\* player and not for the other.
C1_Witness ==
  /\ node.depth < MaxDepth
  /\ \E p \in Players :
       legal_moves(node.board, p) = <<>> /\ legal_moves(node.board, -p) # <<>>

\* C2: every move of legal_moves, applied, turns at least one opponent
\* stone into a stone of the player.
C2_LegalMoveFlips ==
  \A p \in Players :
    LET lm == legal_moves(node.board, p)
    IN \A i \in 1 .. Len(lm) :
         Turned(node.board, apply_move(node.board, lm[i][1], lm[i][2], p), p) # {}

\* C2 witness: a board reached by a move, with a legal move that turns
\* stones in three directions or more.
C2_Witness ==
  /\ node.depth < MaxDepth
  /\ \E c \in LegalCells(node.board, node.player) :
       Cardinality({d \in Directions :
                      \E k \in 2 .. (N - 1) :
                        Bracketed(node.board, c, d, node.player, k)}) >= 3

\* C3: applying a legal move adds exactly one stone: the target cell becomes
\* the player's, every other cell keeps its value or turns from opponent to
\* player, no cell becomes EMPTY and none turns from player to opponent.
C3_OneStoneMore ==
  \A p \in Players :
    LET lm == legal_moves(node.board, p)
    IN \A i \in 1 .. Len(lm) :
         LET m == lm[i]
             out == apply_move(node.board, m[1], m[2], p)
         IN /\ Stones(out) = Stones(node.board) + 1
            /\ At(out, m) = p
            /\ \A c \in Cells \ {m} :
                 \/ At(out, c) = At(node.board, c)
                 \/ At(node.board, c) = -p /\ At(out, c) = p
            /\ \A c \in Cells :
                 /\ At(out, c) # EMPTY \/ At(node.board, c) = EMPTY
                 /\ ~(At(node.board, c) = p /\ At(out, c) = -p)

\* C3 witness: a board reached by a move whose one empty cell is a legal
\* move, so that applying it fills the board.
C3_Witness ==
  /\ node.depth < MaxDepth
  /\ count(node.board, EMPTY) = 1
  /\ \E p \in Players : legal_moves(node.board, p) # <<>>

\* C4: apply_move with a cell that is not in legal_moves returns the board
\* it was given: no stone placed, no stone turned.
C4_IllegalMoveUnchanged ==
  \A p \in Players :
    LET lm == legal_moves(board, p)
    IN \A c \in Cells :
         ~Contains(lm, c) => apply_move(board, c[1], c[2], p) = board

\* C5: on the initial board with BLACK to move, make_move(2, 3) is accepted,
\* leaves 4 BLACK stones and 1 WHITE stone, and WHITE's legal moves are then
\* exactly (2,2), (2,4) and (4,2).
C5_Opening ==
  (board = _init_board /\ current_player = BLACK) =>
    LET r == make_move(Self, 2, 3)
    IN /\ r.ret
       /\ count(r.self.board, BLACK) = 4
       /\ count(r.self.board, WHITE) = 1
       /\ r.self.current_player = WHITE
       /\ Elems(legal_moves(r.self.board, WHITE)) = {<<2, 2>>, <<2, 4>>, <<4, 2>>}

\* C5 witness: the session right after that first move.
C5_Witness ==
  /\ op = "make_move" /\ ret = "True"
  /\ Len(history) = 1 /\ history[1].board = _init_board
  /\ last_move = <<2, 3>>
  /\ count(board, BLACK) = 4 /\ count(board, WHITE) = 1

C7_IllegalMoveRejected ==
  LET moves == get_legal_moves(Self)
      legal == LegalCells(board, current_player)
  IN \A c \in Cells \ legal :
       make_move_on(Self, c[1], c[2], moves) = [self |-> Self, ret |-> FALSE]

\* C7 witness: a rejected make_move in a session with a non-empty undo stack.
C7_Witness ==
  op = "make_move" /\ ret = "False" /\ history # <<>>

\* C8: a successful make_move(x, y) returns True, leaves the board
\* apply_move gives for the old board and old player, the player negated,
\* the log extended by the column letter of x and the row number y + 1, and
\* the pass streak 0.
C8_MoveMade ==
  LET moves == get_legal_moves(Self)
      legal == LegalCells(board, current_player)
  IN \A c \in Cells :
       LET r == make_move_on(Self, c[1], c[2], moves)
       IN r.ret =>
            /\ c \in legal
            /\ r.self.board = apply_move(board, c[1], c[2], current_player)
            /\ r.self.current_player = -current_player
            /\ r.self.move_history =
                 Append(move_history, <<Letters[c[1] + 1], Digits[c[2] + 1]>>)
            /\ r.self.pass_streak = 0

\* C8 witness: a move made right after a pass, which resets the streak.
C8_Witness ==
  /\ op = "make_move" /\ ret = "True"
  /\ history[Len(history)].pass_streak = 1 /\ pass_streak = 0

\* C9: pass_turn succeeds exactly when the current player has no legal
\* move; rejected, it changes nothing; accepted, it keeps the board, negates
\* the player and adds 1 to the pass streak.
C9_Pass ==
  LET r == pass_turn(Self)
  IN /\ r.ret <=> (LegalCells(board, current_player) = {})
     /\ ~r.ret => r.self = Self
     /\ r.ret => /\ r.self.board = board
                 /\ r.self.current_player = -current_player
                 /\ r.self.pass_streak = pass_streak + 1

\* C9 witness: a pass that was accepted.
C9_Witness ==
  op = "pass_turn" /\ ret = "True" /\ pass_streak = 1

\* C10: after a successful make_move or pass_turn, undo(1) gives back the
\* board, player, log, last move and pass streak from before it, and redo(1)
\* right after gives back those from after it.
RoundTrip(r) ==
  r.ret =>
    LET u == undo(r.self, 1)
        v == redo(u.self, 1)
    IN /\ u.ret /\ Visible(u.self) = Visible(Self)
       /\ v.ret /\ Visible(v.self) = Visible(r.self)

C10_UndoRedoRoundTrip ==
  /\ \A r \in make_move_calls(Self) : RoundTrip(r)
  /\ RoundTrip(pass_turn(Self))

\* C10 witness: a redo that brought back a move the undo had taken away.
C10_Witness ==
  /\ op = "redo" /\ ret = "True" /\ future = <<>>
  /\ last_move # <<>> /\ history # <<>>

\* C11: undo(n) makes min(n, size of the undo stack) steps, each taking the
\* top snapshot off the undo stack, showing it, and putting the state shown
\* before on the redo stack, so the two sizes keep their sum; it returns
\* True exactly when it made a step, and with an empty undo stack it
\* returns False and changes nothing.  redo(n) does the same the other way.
Min(a, b) == IF a < b THEN a ELSE b
Shown(self) ==
  [board |-> self.board, current_player |-> self.current_player,
   mode |-> self.mode, pass_streak |-> self.pass_streak,
   move_history |-> self.move_history, last_move |-> self.last_move]
Rev(seq) == [i \in 1 .. Len(seq) |-> seq[Len(seq) + 1 - i]]
\* from is the stack popped and to the stack pushed, before; from2 and to2
\* the same stacks after the call r of n steps.
Stepped(r, n, from, to, from2, to2) ==
  LET k == Min(n, Len(from))
      line == Append(to, Shown(Self)) \o Rev(from)
  IN /\ Len(from2) = Len(from) - k
     /\ Len(to2) = Len(to) + k
     /\ Len(from2) + Len(to2) = Len(from) + Len(to)
     /\ r.ret <=> k >= 1
     /\ from = <<>> => r = [self |-> Self, ret |-> FALSE]
     /\ from2 = SubSeq(from, 1, Len(from) - k)
     /\ to2 = SubSeq(line, 1, Len(to) + k)
     /\ Shown(r.self) = line[Len(to) + k + 1]

C11_UndoRedoSteps ==
  \A n \in 1 .. (MaxSteps + 1) :
    LET u == undo(Self, n)
        v == redo(Self, n)
    IN /\ Stepped(u, n, history, future, u.self.history, u.self.future)
       /\ Stepped(v, n, future, history, v.self.future, v.self.history)

\* C11 witness: an undo asked for more steps than the undo stack held, so
\* that it stopped early and still returned True.
C11_Witness ==
  /\ op = "undo" /\ ret = "True"
  /\ history = <<>> /\ Len(future) = 1

\* C12: a make_move or pass_turn that succeeds puts exactly one snapshot,
\* of the state before it, on the undo stack and empties the redo stack;
\* so after an undo and a new move or pass, redo makes no step and returns
\* False.
Pushed(r) ==
  r.ret => /\ r.self.history = Append(history, Shown(Self))
           /\ r.self.future = <<>>
           /\ \A n \in 1 .. MaxSteps : redo(r.self, n) = [self |-> r.self, ret |-> FALSE]

C12_ForwardPushesAndClears ==
  /\ \A r \in make_move_calls(Self) : Pushed(r)
  /\ Pushed(pass_turn(Self))

\* C12 witness: the session right after an undo, with a snapshot on the
\* redo stack, a pass streak of 1 and a move that make_move accepts.
C12_Witness ==
  /\ op = "undo" /\ ret = "True" /\ future # <<>> /\ pass_streak = 1
  /\ \E r \in make_move_calls(Self) : r.ret

\* C13: for every state of the session, load_dict(to_dict()) into any
\* session gives the mode, board, player, pass streak, log and last move of
\* the saved session and empty undo and redo stacks.
Targets == {Self, Game("HUMAN_VS_HUMAN"), Game("AI_VS_AI")}
C13_SaveLoadRoundTrip ==
  \A t \in Targets :
    LET r == load_dict(t, to_dict(Self))
    IN /\ ~r.raised
       /\ Shown(r.self) = Shown(Self)
       /\ r.self.history = <<>> /\ r.self.future = <<>>

\* C13 witness: a session after a move, with a last move and both stacks
\* not empty.
C13_Witness ==
  /\ last_move # <<>> /\ move_history # <<>>
  /\ history # <<>> /\ future # <<>>
  /\ board # _init_board

\* C14: after _try_restore found a damaged record (no board, a board that
\* is not 8 by 8, or a cell outside -1, 0, 1), a warning was written and the
\* session is a new game: the initial board, BLACK to move, an empty log,
\* nothing taken from the record.
WellFormed(d) ==
  /\ "board" \in DOMAIN d
  /\ Len(d.board) = N
  /\ \A r \in 1 .. N :
       /\ Len(d.board[r]) = N
       /\ \A c \in 1 .. N : d.board[r][c] \in {EMPTY, BLACK, WHITE}

C14_DamagedRecordFallsBack ==
  (op = "_try_restore" /\ storage # <<>> /\ ~WellFormed(storage[1])) =>
    /\ console # <<>>
    /\ Self = Game("AI_WHITE")

\* C18: for the board of every call of search, evaluate for BLACK is minus
\* evaluate for WHITE: every term changes sign with the player and the
\* weights of the phase are those of the board alone.
C18_EvaluateAntisymmetric ==
  LET b == node.board
  IN /\ evaluate(b, BLACK) = -evaluate(b, WHITE)
     /\ posv(b, BLACK) = -posv(b, WHITE)
     /\ corner(b, BLACK) = -corner(b, WHITE)
     /\ danger2(b, BLACK) = -danger2(b, WHITE)
     /\ mob(b, BLACK) = -mob(b, WHITE)
     /\ stable_frontier_penalty(b, BLACK) = -stable_frontier_penalty(b, WHITE)
     /\ stones(b, BLACK) = -stones(b, WHITE)

\* C18 witness: a board reached by a move, in the late phase, on which no
\* term is 0.
C18_Witness ==
  LET b == node.board
  IN /\ node.depth < MaxDepth
     /\ late32(b) > 0
     /\ posv(b, BLACK) # 0 /\ corner(b, BLACK) # 0 /\ danger2(b, BLACK) # 0
     /\ mob(b, BLACK) # 0 /\ stable_frontier_penalty(b, BLACK) # 0
     /\ stones(b, BLACK) # 0

\* C15: choose_move, whatever the depth, the time limit and the table left
\* by earlier calls, returns None exactly when the player has no legal
\* move, and otherwise one of the player's legal moves.
C15_ChosenMoveLegal ==
  call.n > 0 =>
    LET legal == LegalCells(call.board, call.player)
    IN /\ call.move = <<>> <=> legal = {}
       /\ call.move # <<>> => call.move \in legal
       /\ ~call.raised

\* C15 witness: a second call, on the table the first one left, that timed
\* out and returned a move.
C15_Witness ==
  /\ op = "choose_move" /\ call.n = 2 /\ DOMAIN call.tt0 # {}
  /\ call.timed_out /\ call.move # <<>>

\* C16: when the time runs out during iteration d of choose_move, no
\* exception leaves choose_move, no iteration after d is started, and the
\* move returned is the one a call with depth d - 1 and no time limit
\* returns on the same table, or the first legal move when d = 1; with a
\* limit of 0 it is the first legal move.
C16_TimeoutFallsBack ==
  (call.n > 0 /\ call.timed_out) =>
    LET first == legal_moves(call.board, call.player)[1]
    IN /\ ~call.raised
       /\ call.done < call.depth
       /\ call.move =
            IF call.done = 0 THEN first
            ELSE choose_move(call.board, call.player, call.done, NoLimit,
                             call.tt0).move
       /\ call.left = 0 => call.move = first
       /\ op = "choose_move" =>
            \A k \in DOMAIN TT :
              \/ TT[k].depth <= call.done + 1
              \/ k \in DOMAIN call.tt0 /\ call.tt0[k] = TT[k]

\* C16 witness: the time ran out after a completed iteration whose move was
\* not the first legal move.
C16_Witness ==
  /\ op = "choose_move" /\ call.timed_out /\ call.done >= 1
  /\ call.move # legal_moves(call.board, call.player)[1]

\* The value of a position by the rules of the search alone: no table, no
\* window, no move ordering.
Max(S) == CHOOSE v \in S : \A w \in S : w <= v
RECURSIVE minimax(_, _, _)
minimax(b, p, depth) ==
  LET legal == legal_moves(b, p)
  IN IF depth <= 0 \/ (legal = <<>> /\ legal_moves(b, -p) = <<>>)
     THEN evaluate(b, p)
     ELSE IF legal = <<>> THEN -minimax(b, -p, depth - 1)
     ELSE Max({-minimax(apply_move(b, legal[i][1], legal[i][2], p), -p, depth - 1) :
                 i \in 1 .. Len(legal)})

\* A call with no time limit on an empty table, for a player with a move.
Untimed == call.n > 0 /\ call.left = NoLimit /\ DOMAIN call.tt0 = {} /\ call.move # <<>>

\* C17: with no time limit and an empty table, the move choose_move returns
\* for depth N is the root move of one search of depth N with the full
\* window on an empty table.
C17_SameMoveAsIndependent ==
  Untimed =>
    call.move = search_root(call.board, call.player, call.depth, <<>>).move

\* C17 as amended: with no time limit and an empty table, the value the
\* last iteration of choose_move finds at the root is the value one search
\* of depth N with the full window on an empty table finds, which is the
\* minimax value of depth N, and the move returned is a move of that value;
\* when several root moves have that value it need not be the same move.
C17_SameValueAsIndependent ==
  Untimed =>
    LET q == search_root(call.board, call.player, call.depth, <<>>)
        nb == apply_move(call.board, call.move[1], call.move[2], call.player)
    IN /\ call.val = q.val
       /\ q.val = minimax(call.board, call.player, call.depth)
       /\ -minimax(nb, -call.player, call.depth - 1) = q.val

\* C17 witness: such a call whose move is not the root move of the search
\* on its own.
C17_Witness ==
  /\ Untimed /\ call.depth = MaxSearchDepth
  /\ call.move # search_root(call.board, call.player, call.depth, <<>>).move

\* C19: right after a reset of the game by the UI, and right after a saved
\* game was loaded, TT is empty, so that a search called later finds no
\* entry written before.
C19_ResetEmptiesTT ==
  (op = "_on_reset" \/ (op = "_try_restore" /\ storage # <<>> /\ console = <<>>)) =>
    DOMAIN TT = {}

\* C19 witness: a reset after a search that had stored entries.
C19_Witness ==
  /\ op = "_on_reset" /\ call.n > 0 /\ call.done >= 1 /\ board = _init_board
  /\ DOMAIN TT = {}

\* C20: the entry search stores after its move loop is classified against
\* the alpha and beta the call was given: the root call of choose_move is
\* given -inf and inf, its best value lies strictly between, so the entry
\* of the root is EXACT.
C20_RootEntryExact ==
  (op = "choose_move" /\ call.done >= 1 /\ ~call.timed_out) =>
    LET key == board_key(call.board, call.player)
    IN key \in DOMAIN TT /\ TT[key].flag = "EXACT"

\* C27: a pass streak of 2 or more is found only on a board where neither
\* player has a legal move.
C27_DoublePassOnlyWhenOver ==
  pass_streak >= 2 =>
    legal_moves(board, BLACK) = <<>> /\ legal_moves(board, WHITE) = <<>>

\* C27 witness: the second pass in a row, taken back and done again.
C27_Witness ==
  /\ op = "redo" /\ ret = "True" /\ pass_streak = 2
  /\ Len(move_history) >= 2
  /\ move_history[Len(move_history)] = PassNote
  /\ move_history[Len(move_history) - 1] = PassNote

\* C28: in a session no load_dict touched, the move log has as many entries
\* as the undo stack has snapshots, BLACK is to move exactly when that
\* number is even, and the board holds 4 stones plus one for every entry of
\* the log that is not a pass.
C28_LogStackStones ==
  /\ Len(move_history) = Len(history)
  /\ current_player = BLACK <=> Len(history) % 2 = 0
  /\ Stones(board) =
       4 + Cardinality({i \in 1 .. Len(move_history) : move_history[i] # PassNote})

\* C28 witness: a pass was undone and done again, and the log holds it.
C28_Witness ==
  /\ op = "redo" /\ ret = "True"
  /\ move_history # <<>> /\ move_history[Len(move_history)] = PassNote
  /\ \E i \in 1 .. Len(move_history) : move_history[i] # PassNote

\* The cells next to a corner, along an edge or diagonally.
NextToCorner ==
  {c \in Cells \ CORNERS :
     \E k \in CORNERS : Abs(c[1] - k[1]) <= 1 /\ Abs(c[2] - k[2]) <= 1}

\* 0 for a corner, 2 for a cell next to a corner, 1 for any other cell.
Rank(m) == IF m \in CORNERS THEN 0 ELSE IF m \in NextToCorner THEN 2 ELSE 1

\* Twice the distance from the centre, |3.5 - x| + |3.5 - y|.
Distance2(m) == Abs(7 - 2 * m[1]) + Abs(7 - 2 * m[2])

\* C23: order_moves returns its list permuted so that corners come first,
\* the cells next to a corner, diagonal ones included, come last, and the
\* other cells are in between in ascending distance from the centre.
C23_OrderedByRank ==
  LET legal == legal_moves(node.board, node.player)
      o == order_moves(legal)
  IN /\ Len(o) = Len(legal)
     /\ Elems(o) = Elems(legal)
     /\ \A i, j \in 1 .. Len(o) :
          i < j =>
            /\ Rank(o[i]) <= Rank(o[j])
            /\ (Rank(o[i]) = 1 /\ Rank(o[j]) = 1) => Distance2(o[i]) <= Distance2(o[j])

\* The order the claim states for the move loop: the move of the table
\* first, the others as order_moves puts them.
TableMoveThenHeuristic(tt, key, legal) ==
  IF key \in DOMAIN tt /\ tt[key].best # <<>>
  THEN <<tt[key].best>>
       \o order_moves(SelectSeq(legal, LAMBDA m : m # tt[key].best))
  ELSE order_moves(legal)

\* C22: in the move loop of search the move the table holds for (board,
\* player) comes first and the other legal moves follow in the order of
\* order_moves; without a table move the whole list is in that order.
\* Stated for every position the table holds an entry for, at the next
\* visit of search to it.
C22_TableMoveThenHeuristic ==
  \A key \in DOMAIN TT :
    LET legal == legal_moves(key[2], key[1])
    IN legal # <<>> =>
         loop_order(TT, key, legal) = TableMoveThenHeuristic(TT, key, legal)

\* C24: on a board in the mid-game range (the weight mid is positive) the
\* frontier term of evaluate is <= 0 for a player with more frontier
\* stones than the opponent and >= 0 for a player with fewer.
C24_FrontierPenalizes ==
  \A player \in {BLACK, WHITE} :
    LET mine == frontier_count(node.board, player)
        theirs == frontier_count(node.board, -player)
        term == frontier_term(node.board, player)
    IN mid2048(node.board) > 0 =>
         /\ mine > theirs => term <= 0
         /\ mine < theirs => term >= 0

C26_SnapshotBeforeChange ==
  [][(Shown(Self') # Shown(Self) /\ op' \notin {"_on_undo", "_on_redo"})
       => LET u == undo(Self', 1)
          IN u.ret /\ Shown(u.self) = Shown(Self)]_vars

\* An iteration of the AI_VS_AI loop ends: ai_once returns to the loop.
Iterated ==
  \E i \in 1 .. Len(tasks) :
    /\ tasks[i].name = "_step_ai_loop" /\ tasks[i].pc \in {"pass", "think"}
    /\ i <= Len(tasks')
    /\ tasks'[i].name = "_step_ai_loop" /\ tasks'[i].pc = "yield"

Finished == is_game_over(Self) /\ tasks = <<>>

\* What is left to do, as a number: the empty cells count most, then a
\* pass that is due (the player to move has no move), then the steps the
\* tasks have before them.  Once the game is over a task that has not
\* reached its sleep only has to end; a task of the loop asleep before its
\* pass_turn counts 4 while the pass is due and 6 once another task has
\* made it.
PassDue(self) ==
  IF legal_moves(self.board, self.current_player) = <<>> THEN 1 ELSE 0

Weight(t, due, over) ==
  IF t.pc \in {"start", "yield"}
  THEN IF over THEN 1
       ELSE IF t.name = "_check_auto_pass_and_result" THEN 3 ELSE 5
  ELSE IF t.name = "_check_auto_pass_and_result" THEN 2
  ELSE IF t.pc = "think" THEN 4
  ELSE IF due = 1 THEN 4 ELSE 6

RECURSIVE Weights(_, _, _, _)
Weights(ts, i, due, over) ==
  IF i > Len(ts) THEN 0
  ELSE Weight(ts[i], due, over) + Weights(ts, i + 1, due, over)

Left(self, ts) ==
  100 * count(self.board, EMPTY) + 10 * PassDue(self)
    + Weights(ts, 1, PassDue(self), is_game_over(self))

\* Some task can take its step: no bound of the model holds it back.
Ready ==
  \E i \in 1 .. Len(tasks) :
    /\ tasks[i].pc = "think" => call.n < MaxTurns
    /\ tasks[i].name = "_step_ai_loop" => Len(tasks) < MaxTasks

C21_BoundSemantics ==
  \A key \in DOMAIN TT :
    LET e == TT[key]
        v == minimax(key[2], key[1], e.depth)
    IN /\ e.flag = "EXACT" => e.value = v
       /\ e.flag = "LOWER" => e.value <= v
       /\ e.flag = "UPPER" => e.value >= v
====
